---- MODULE Spec2Model ----
(***************************************************************************)
(* Validation schemas of Nobitex-Python: nobitex/schema/ohcl_schema.py     *)
(* (OHCLEntry, OHCL, all_ohlc_T) and nobitex/schema/trade_schema.py        *)
(* (TradeEntry).  Each validation call is a pure function of its input;    *)
(* the state is one call: the operation, its raw input and its result.     *)
(* Raw inputs are the JSON-like values of the interface: integers,         *)
(* strings, null, sequences and keyed records (plus a date-time object     *)
(* for the trade timestamp).  Strings are sequences of characters.         *)
(***************************************************************************)
EXTENDS Integers, Sequences, FiniteSets, TLC

VARIABLES pc, op, arg, res

vars == <<pc, op, arg, res>>

(***************************************************************************)
(* Bounds of the model.                                                    *)
(***************************************************************************)
\* longest decimal literal enumerated over LitAlphabet
MaxLit == 4
\* longest positional candle
MaxLen == 7
\* longest candle collection
MaxSeries == 2

(***************************************************************************)
(* Raw (untyped) values.                                                   *)
(***************************************************************************)
I(n) == [k |-> "int", n |-> n, s |-> <<>>]
S(s) == [k |-> "str", n |-> 0, s |-> s]
D(s) == [k |-> "decimal", n |-> 0, s |-> s]
DT(h) == [k |-> "datetime", n |-> h, s |-> <<>>]
Null == [k |-> "null", n |-> 0, s |-> <<>>]
Absent == [k |-> "absent", n |-> 0, s |-> <<>>]

Digits == {"0", "1", "2", "3", "4", "5", "6", "7", "8", "9"}

DigitVal(c) ==
  CASE c = "0" -> 0 [] c = "1" -> 1 [] c = "2" -> 2 [] c = "3" -> 3
    [] c = "4" -> 4 [] c = "5" -> 5 [] c = "6" -> 6 [] c = "7" -> 7
    [] c = "8" -> 8 [] c = "9" -> 9 [] OTHER -> 0

DigitChar(d) ==
  CASE d = 0 -> "0" [] d = 1 -> "1" [] d = 2 -> "2" [] d = 3 -> "3"
    [] d = 4 -> "4" [] d = 5 -> "5" [] d = 6 -> "6" [] d = 7 -> "7"
    [] d = 8 -> "8" [] OTHER -> "9"

RECURSIVE Pow10(_)
Pow10(e) == IF e <= 0 THEN 1 ELSE 10 * Pow10(e - 1)

RECURSIVE Zeros(_)
Zeros(n) == IF n <= 0 THEN <<>> ELSE <<"0">> \o Zeros(n - 1)

AllDigits(s) == \A i \in 1..Len(s) : s[i] \in Digits

\* int(text) for a text of digits; the empty text counts 0
RECURSIVE DigitsToInt(_)
DigitsToInt(s) ==
  IF s = <<>> THEN 0
  ELSE 10 * DigitsToInt(SubSeq(s, 1, Len(s) - 1)) + DigitVal(s[Len(s)])

\* str(n) for n >= 0
RECURSIVE NatStr(_)
NatStr(n) ==
  IF n < 10 THEN <<DigitChar(n)>>
  ELSE NatStr(n \div 10) \o <<DigitChar(n % 10)>>

\* str(n)
IntStr(n) == IF n < 0 THEN <<"-">> \o NatStr(-n) ELSE NatStr(n)

\* position of the first "." of s, 0 when there is none
DotPos(s) ==
  IF \E i \in 1..Len(s) : s[i] = "."
  THEN CHOOSE i \in 1..Len(s) : s[i] = "." /\ \A j \in 1..(i - 1) : s[j] # "."
  ELSE 0

(***************************************************************************)
(* decimal.Decimal: a value is sign, coefficient and exponent.             *)
(***************************************************************************)
Dec(sign, coeff, exp) == [sign |-> sign, coeff |-> coeff, exp |-> exp]

NoDec == Dec(0, 0, 0)

\* Decimal(text): [sign] (digits [. digits] | . digits), at least one digit
ParseDecimal(s) ==
  LET signed == Len(s) > 0 /\ s[1] \in {"+", "-"}
      body == IF signed THEN SubSeq(s, 2, Len(s)) ELSE s
      dot == DotPos(body)
      intpart == IF dot = 0 THEN body ELSE SubSeq(body, 1, dot - 1)
      fracpart == IF dot = 0 THEN <<>> ELSE SubSeq(body, dot + 1, Len(body))
      wellformed == /\ AllDigits(intpart)
                    /\ AllDigits(fracpart)
                    /\ Len(intpart) + Len(fracpart) > 0
  IN IF wellformed
     THEN [ok |-> TRUE,
           val |-> Dec(IF signed /\ s[1] = "-" THEN 1 ELSE 0,
                       DigitsToInt(intpart \o fracpart),
                       0 - Len(fracpart))]
     ELSE [ok |-> FALSE, val |-> NoDec]

\* Decimal.__str__
DecStr(d) ==
  LET sign == IF d.sign = 1 THEN <<"-">> ELSE <<>>
      int == NatStr(d.coeff)
      leftdigits == d.exp + Len(int)
      dotplace == IF d.exp <= 0 /\ leftdigits > -6 THEN leftdigits ELSE 1
      intpart == IF dotplace <= 0 THEN <<"0">>
                 ELSE IF dotplace >= Len(int) THEN int \o Zeros(dotplace - Len(int))
                 ELSE SubSeq(int, 1, dotplace)
      fracpart == IF dotplace <= 0 THEN <<".">> \o Zeros(-dotplace) \o int
                  ELSE IF dotplace >= Len(int) THEN <<>>
                  ELSE <<".">> \o SubSeq(int, dotplace + 1, Len(int))
      exp == IF leftdigits = dotplace THEN <<>>
             ELSE <<"E">> \o (IF leftdigits - dotplace >= 0 THEN <<"+">> ELSE <<>>)
                          \o IntStr(leftdigits - dotplace)
  IN sign \o intpart \o fracpart \o exp

\* the signed coefficient of d at exponent e (e <= d.exp)
Scaled(d, e) == (IF d.sign = 1 THEN -1 ELSE 1) * d.coeff * Pow10(d.exp - e)

MinExp(a, b) == IF a.exp < b.exp THEN a.exp ELSE b.exp

\* Decimal.__lt__: comparison by numeric value
DecLess(a, b) == Scaled(a, MinExp(a, b)) < Scaled(b, MinExp(a, b))

DecMax(a, b) == IF DecLess(a, b) THEN b ELSE a

DecMin(a, b) == IF DecLess(b, a) THEN b ELSE a

(***************************************************************************)
(* Field coercion (pydantic, lax mode).                                    *)
(***************************************************************************)
NoValue == <<>>

Ok(v) == [ok |-> TRUE, err |-> "", val |-> v]

Fail(e) == [ok |-> FALSE, err |-> e, val |-> NoValue]

\* int from a string: [sign] digits [. zeros]
StrAsInt(s) ==
  LET signed == Len(s) > 0 /\ s[1] \in {"+", "-"}
      body == IF signed THEN SubSeq(s, 2, Len(s)) ELSE s
      dot == DotPos(body)
      intpart == IF dot = 0 THEN body ELSE SubSeq(body, 1, dot - 1)
      fracpart == IF dot = 0 THEN <<>> ELSE SubSeq(body, dot + 1, Len(body))
  IN IF /\ Len(intpart) > 0
        /\ AllDigits(intpart)
        /\ \A i \in 1..Len(fracpart) : fracpart[i] = "0"
     THEN Ok((IF signed /\ s[1] = "-" THEN -1 ELSE 1) * DigitsToInt(intpart))
     ELSE Fail("int_parsing")

\* a field annotated int
IntField(v) ==
  CASE v.k = "absent" -> Fail("missing")
    [] v.k = "int" -> Ok(v.n)
    [] v.k = "str" -> StrAsInt(v.s)
    [] OTHER -> Fail("int_type")

\* a decimal field that keeps only the integer part of a literal
DecimalField_truncating(v) ==
  CASE v.k = "absent" -> Fail("missing")
    [] v.k = "int" -> Ok(Dec(IF v.n < 0 THEN 1 ELSE 0, IF v.n < 0 THEN -v.n ELSE v.n, 0))
    [] v.k \in {"str", "decimal"} ->
         IF ParseDecimal(v.s).ok
         THEN Ok(Dec(ParseDecimal(v.s).val.sign,
                     ParseDecimal(v.s).val.coeff \div Pow10(-ParseDecimal(v.s).val.exp), 0))
         ELSE Fail("decimal_parsing")
    [] OTHER -> Fail("decimal_type")

\* a field annotated Decimal: Decimal(v) of a string or an integer, a Decimal as is
DecimalField(v) ==
  CASE v.k = "absent" -> Fail("missing")
    [] v.k = "int" -> Ok(Dec(IF v.n < 0 THEN 1 ELSE 0, IF v.n < 0 THEN -v.n ELSE v.n, 0))
    [] v.k \in {"str", "decimal"} ->
         IF ParseDecimal(v.s).ok THEN Ok(ParseDecimal(v.s).val)
         ELSE Fail("decimal_parsing")
    [] OTHER -> Fail("decimal_type")

\* a field annotated str
StrField(v) ==
  CASE v.k = "absent" -> Fail("missing")
    [] v.k = "str" -> Ok(v.s)
    [] OTHER -> Fail("string_type")

(***************************************************************************)
(* Python's < on two raw values, as validate_high_low applies it to the    *)
(* attributes of the value it is handed.                                   *)
(***************************************************************************)
CharCode(c) ==
  CASE c = "+" -> 43 [] c = "-" -> 45 [] c = "." -> 46
    [] c \in Digits -> 48 + DigitVal(c)
    [] OTHER -> 120

\* str.__lt__: lexicographic
RECURSIVE StrLess(_, _)
StrLess(a, b) ==
  IF b = <<>> THEN FALSE
  ELSE IF a = <<>> THEN TRUE
  ELSE IF CharCode(a[1]) # CharCode(b[1]) THEN CharCode(a[1]) < CharCode(b[1])
  ELSE StrLess(Tail(a), Tail(b))

Numeric(v) == v.k = "int" \/ (v.k = "decimal" /\ ParseDecimal(v.s).ok)

PyComparable(a, b) == (Numeric(a) /\ Numeric(b)) \/ (a.k = "str" /\ b.k = "str")

PyLess(a, b) ==
  IF a.k = "str" THEN StrLess(a.s, b.s)
  ELSE DecLess(DecimalField(a).val, DecimalField(b).val)

PyMax(a, b) == IF PyLess(a, b) THEN b ELSE a

PyMin(a, b) == IF PyLess(b, a) THEN b ELSE a

(***************************************************************************)
(* OHCLEntry (ohcl_schema.py).  A raw candle is positional (shape "list",  *)
(* items) or keyed (shape "dict", fields; an absent key holds Absent).     *)
(***************************************************************************)
FieldNames == {"timestamp", "open", "high", "low", "close", "volume"}

NoFields == [f \in FieldNames |-> Absent]

List(items) == [shape |-> "list", items |-> items, fields |-> NoFields]

Dict(fields) == [shape |-> "dict", items |-> <<>>, fields |-> fields]

\* getattr succeeds: neither a list nor a dict has an attribute of a field's name
HasAttr(self, name) == self.shape = "object" /\ self.fields[name].k # "absent"

Returned(v) == [raised |-> FALSE, err |-> "", data |-> v]

Raised(e, v) == [raised |-> TRUE, err |-> e, data |-> v]

\* validate_high_low without its two checks
validate_high_low_unchecked(self) == Returned(self)

\* OHCLEntry.validate_high_low, the model's "before" validator: pydantic calls a
\* one-parameter "before" function with the raw input, so self is the raw value.
validate_high_low(self) ==
  IF ~(\A a \in {"high", "open", "close"} : HasAttr(self, a))
  THEN Raised("AttributeError", self)
  ELSE IF ~(/\ PyComparable(self.fields["open"], self.fields["close"])
            /\ PyComparable(self.fields["high"], self.fields["open"]))
  THEN Raised("TypeError", self)
  ELSE IF PyLess(self.fields["high"], PyMax(self.fields["open"], self.fields["close"]))
  THEN Raised("ValueError: High must be >= max(open, close)", self)
  ELSE IF ~HasAttr(self, "low")
  THEN Raised("AttributeError", self)
  ELSE IF ~PyComparable(self.fields["low"], self.fields["open"])
  THEN Raised("TypeError", self)
  ELSE IF PyLess(PyMin(self.fields["open"], self.fields["close"]), self.fields["low"])
  THEN Raised("ValueError: Low must be <= min(open, close)", self)
  ELSE Returned(self)

\* parse_list that maps only a sequence of exactly six values
parse_list_exactly_six(values) ==
  IF values.shape = "list" /\ Len(values.items) = 6
  THEN Dict([timestamp |-> values.items[1], open |-> values.items[2],
             high |-> values.items[3], low |-> values.items[4],
             close |-> values.items[5], volume |-> values.items[6]])
  ELSE IF values.shape = "list" /\ Len(values.items) = 5
  THEN Dict([timestamp |-> values.items[1], open |-> values.items[2],
             high |-> values.items[3], low |-> values.items[4],
             close |-> values.items[5], volume |-> D(<<"0">>)])
  ELSE values

\* OHCLEntry.parse_list: a plain classmethod, not registered as a validator
parse_list(values) ==
  IF values.shape = "list"
  THEN IF Len(values.items) >= 6
       THEN Dict([timestamp |-> values.items[1], open |-> values.items[2],
                  high |-> values.items[3], low |-> values.items[4],
                  close |-> values.items[5], volume |-> values.items[6]])
       ELSE IF Len(values.items) = 5
       THEN Dict([timestamp |-> values.items[1], open |-> values.items[2],
                  high |-> values.items[3], low |-> values.items[4],
                  close |-> values.items[5], volume |-> D(<<"0">>)])
       ELSE values
  ELSE values

\* the fields of OHCLEntry, validated from a keyed record
OHCLEntryFields(data) ==
  IF data.shape # "dict" THEN Fail("model_type")
  ELSE LET ts == IntField(data.fields["timestamp"])
           o == DecimalField(data.fields["open"])
           h == DecimalField(data.fields["high"])
           l == DecimalField(data.fields["low"])
           c == DecimalField(data.fields["close"])
           v == DecimalField(data.fields["volume"])
       IN IF ~ts.ok THEN Fail(ts.err)
          ELSE IF ~o.ok THEN Fail(o.err)
          ELSE IF ~h.ok THEN Fail(h.err)
          ELSE IF ~l.ok THEN Fail(l.err)
          ELSE IF ~c.ok THEN Fail(c.err)
          ELSE IF ~v.ok THEN Fail(v.err)
          ELSE Ok([timestamp |-> ts.val, open |-> o.val, high |-> h.val,
                   low |-> l.val, close |-> c.val, volume |-> v.val])

\* OHCLEntry.model_validate(raw): the "before" validator, then the fields
OHCLEntryValidate(raw) ==
  LET b == validate_high_low(raw)
  IN IF b.raised THEN Fail(b.err) ELSE OHCLEntryFields(b.data)

(***************************************************************************)
(* OHCL and all_ohlc_T (ohcl_schema.py).  A raw collection is a keyed      *)
(* record that holds the key "values" (has) or not.                        *)
(***************************************************************************)
RawOHCL(seq) == [has |-> TRUE, values |-> seq]

NoValues == [has |-> FALSE, values |-> <<>>]

\* OHCL.model_validate that leaves out the elements it cannot validate
OHCLValidate_skipping(raw) ==
  IF ~raw.has THEN Fail("missing")
  ELSE LET good == SelectSeq(raw.values, LAMBDA c : OHCLEntryValidate(c).ok)
       IN Ok([values |-> [i \in 1..Len(good) |-> OHCLEntryValidate(good[i]).val]])

\* OHCL.model_validate(raw): values: list[OHCLEntry], element by element
OHCLValidate(raw) ==
  IF ~raw.has THEN Fail("missing")
  ELSE LET each == [i \in 1..Len(raw.values) |-> OHCLEntryValidate(raw.values[i])]
           bad == {i \in 1..Len(raw.values) : ~each[i].ok}
       IN IF bad # {}
          THEN Fail(each[CHOOSE i \in bad : \A j \in bad : i <= j].err)
          ELSE Ok([values |-> [i \in 1..Len(raw.values) |-> each[i].val]])

\* all_ohlc_T.validate_python(raw): TypeAdapter(Any) returns its input
all_ohlc_T(raw) == Ok(raw)

(***************************************************************************)
(* TradeEntry (trade_schema.py).  A raw trade is a keyed record; an absent *)
(* key holds Absent.                                                       *)
(***************************************************************************)
Buy == <<"b", "u", "y">>

Sell == <<"s", "e", "l", "l">>

\* datetime(2024, 1, 1, h).isoformat() and str() of it
DatePart == <<"2", "0", "2", "4", "-", "0", "1", "-", "0", "1">>

TimePart(h) == <<"0", DigitChar(h), ":", "0", "0", ":", "0", "0">>

IsoFormat(h) == DatePart \o <<"T">> \o TimePart(h)

\* str(v)
PyStr(v) ==
  CASE v.k = "str" -> v.s
    [] v.k = "int" -> IntStr(v.n)
    [] v.k = "null" -> <<"N", "o", "n", "e">>
    [] v.k = "datetime" -> DatePart \o <<" ">> \o TimePart(v.n)
    [] OTHER -> DecStr(DecimalField(v).val)

\* validate_timestamp without the date-time branch
validate_timestamp_str_only(v) == PyStr(v)

\* TradeEntry.validate_timestamp
validate_timestamp(v) == IF v.k = "datetime" THEN IsoFormat(v.n) ELSE PyStr(v)

\* timestamp: str, after the "before" field validator
TimestampField(v) ==
  IF v.k = "absent" THEN Fail("missing") ELSE StrField(S(validate_timestamp(v)))

\* type: str
TypeField_any_string(v) == StrField(v)

\* type: Literal['buy', 'sell']
TypeField(v) ==
  CASE v.k = "absent" -> Fail("missing")
    [] v.k = "str" /\ v.s \in {Buy, Sell} -> Ok(v.s)
    [] OTHER -> Fail("literal_error")

\* TradeEntry.model_validate(raw)
TradeEntryValidate(raw) ==
  LET m == StrField(raw.market)
      p == DecimalField(raw.price)
      a == DecimalField(raw.amount)
      t == DecimalField(raw.total)
      ty == TypeField(raw.type)
      ts == TimestampField(raw.timestamp)
  IN IF ~m.ok THEN Fail(m.err)
     ELSE IF ~p.ok THEN Fail(p.err)
     ELSE IF ~a.ok THEN Fail(a.err)
     ELSE IF ~t.ok THEN Fail(t.err)
     ELSE IF ~ty.ok THEN Fail(ty.err)
     ELSE IF ~ts.ok THEN Fail(ts.err)
     ELSE Ok([market |-> m.val, price |-> p.val, amount |-> a.val,
              total |-> t.val, type |-> ty.val, timestamp |-> ts.val])

(***************************************************************************)
(* The raw inputs the calls are made with.                                 *)
(***************************************************************************)
TsRaws == {I(1), S(<<"1", "5">>), S(<<"x">>)}

PriceRaws == {S(<<"-", "5">>), S(<<"0">>), S(<<"9">>), S(<<"1", "0">>)}

VolRaws == {S(<<"0">>), I(-1)}

TrailRaws == {Null, S(<<"x">>)}

\* six positional values: timestamp, open, high, low, close, volume
\* with one value that is no number in each decimal position of one candle
BaseCandles ==
  {<<ts, o, h, l, c, v>> : ts \in TsRaws, o \in PriceRaws, h \in PriceRaws,
                           l \in PriceRaws, c \in PriceRaws, v \in VolRaws}
    \cup {[<<I(1), S(<<"9">>), S(<<"1", "0">>), S(<<"0">>), S(<<"9">>), S(<<"0">>)>>
             EXCEPT ![i] = x] : i \in 2..6, x \in {S(<<"x">>), Null}}

KeyedOf(b) ==
  Dict([timestamp |-> b[1], open |-> b[2], high |-> b[3], low |-> b[4],
        close |-> b[5], volume |-> b[6]])

RawLists ==
  {List(SubSeq(b, 1, n)) : b \in BaseCandles, n \in 0..6}
    \cup {List(b \o [i \in 1..k |-> x]) :
            b \in BaseCandles, k \in 1..(MaxLen - 6), x \in TrailRaws}

RawDicts ==
  {KeyedOf(b) : b \in BaseCandles}
    \cup {Dict([KeyedOf(b).fields EXCEPT ![f] = Absent]) :
            b \in BaseCandles, f \in FieldNames}

RawCandles == RawLists \cup RawDicts

\* a few candles to build collections from: a well-formed positional and keyed
\* candle, one with high below open, one too short
SampleCandles ==
  {List(<<I(1), S(<<"9">>), S(<<"1", "0">>), S(<<"0">>), S(<<"9">>), S(<<"0">>)>>),
   KeyedOf(<<I(1), S(<<"9">>), S(<<"1", "0">>), S(<<"0">>), S(<<"9">>), S(<<"0">>)>>),
   List(<<I(1), S(<<"1", "0">>), S(<<"9">>), S(<<"0">>), S(<<"9">>), S(<<"0">>)>>),
   List(<<I(1), S(<<"9">>)>>)}

RawSeries ==
  {NoValues} \cup
  UNION {{RawOHCL(s) : s \in [1..n -> SampleCandles]} : n \in 0..MaxSeries}

Symbols == {"BTCUSDT", "ETHUSDT"}

RawMaps == UNION {[syms -> RawSeries] : syms \in SUBSET Symbols}

LitAlphabet == {"-", "+", "0", "1", "5", "."}

\* literals too long to enumerate: small magnitudes and a long fraction
LongLits ==
  {<<"0", ".", "0", "0", "0", "0", "0", "1">>,
   <<"0", ".", "0", "0", "0", "0", "0", "0", "1">>,
   <<"0", ".", "0", "0", "0", "0", "0", "0">>,
   <<"0", ".", "0", "0", "0", "0", "0", "0", "0">>,
   <<"5", ".", "1", "2", "3", "4", "5", "6", "7", "8">>}

Literals == LongLits \cup UNION {[1..n -> LitAlphabet] : n \in 0..MaxLit}

ValidTrade ==
  [market |-> S(<<"B", "T", "C">>), price |-> S(<<"1", ".", "5">>),
   amount |-> S(<<"0", ".", "1">>), total |-> S(<<"5">>),
   type |-> S(Buy), timestamp |-> S(IsoFormat(0))]

TypeRaws ==
  {S(Buy), S(Sell), S(<<"B", "U", "Y">>), S(<<"S", "e", "l", "l">>),
   S(<<"i", "n", "v", "a", "l", "i", "d">>), S(<<>>), I(1), Null, Absent}

TimestampRaws ==
  {S(IsoFormat(0)), S(<<"x">>), S(<<>>), I(15), Null, DT(0), DT(1), Absent}

RawTrades ==
  {[ValidTrade EXCEPT ![f] = S(l)] :
     f \in {"price", "amount", "total"}, l \in Literals}
    \cup {[ValidTrade EXCEPT !.market = m, !.price = p, !.type = ty, !.timestamp = ts] :
            m \in {S(<<"B", "T", "C">>), I(1), Absent},
            p \in {S(<<"1", ".", "5">>), S(<<"x">>), I(2)},
            ty \in TypeRaws, ts \in TimestampRaws}

(***************************************************************************)
(* The calls.  A call is made with one raw input (pc = "call") and returns *)
(* its result (pc = "done"); calls share no state.                         *)
(***************************************************************************)
Inputs(o) ==
  CASE o = "validate_entry" -> RawCandles
    [] o = "parse_list" -> RawCandles
    [] o = "validate_series" -> RawSeries
    [] o = "validate_map" -> RawMaps
    [] OTHER -> RawTrades

Ops == {"validate_entry", "parse_list", "validate_series", "validate_map",
        "validate_trade"}

Init ==
  /\ pc = "call"
  /\ op \in Ops
  /\ arg \in Inputs(op)
  /\ res = NoValue

\* OHCLEntry.model_validate(arg)
ValidateEntry ==
  /\ pc = "call" /\ op = "validate_entry"
  /\ res' = OHCLEntryValidate(arg)
  /\ pc' = "done"
  /\ UNCHANGED <<op, arg>>

\* OHCLEntry.parse_list(arg)
ParseList ==
  /\ pc = "call" /\ op = "parse_list"
  /\ res' = parse_list(arg)
  /\ pc' = "done"
  /\ UNCHANGED <<op, arg>>

\* OHCL.model_validate(arg)
ValidateSeries ==
  /\ pc = "call" /\ op = "validate_series"
  /\ res' = OHCLValidate(arg)
  /\ pc' = "done"
  /\ UNCHANGED <<op, arg>>

\* all_ohlc_T.validate_python(arg)
ValidateMap ==
  /\ pc = "call" /\ op = "validate_map"
  /\ res' = all_ohlc_T(arg)
  /\ pc' = "done"
  /\ UNCHANGED <<op, arg>>

\* TradeEntry.model_validate(arg)
ValidateTrade ==
  /\ pc = "call" /\ op = "validate_trade"
  /\ res' = TradeEntryValidate(arg)
  /\ pc' = "done"
  /\ UNCHANGED <<op, arg>>

Next ==
  \/ ValidateEntry
  \/ ParseList
  \/ ValidateSeries
  \/ ValidateMap
  \/ ValidateTrade

Spec == Init /\ [][Next]_vars

(***************************************************************************)
(* Properties.                                                             *)
(***************************************************************************)
Done(o) == pc = "done" /\ op = o

\* the candle's coerced values: shape normalization, then field coercion
Coerced(raw) == OHCLEntryFields(parse_list(raw))

HighLowHolds(e) ==
  /\ ~DecLess(e.high, DecMax(e.open, e.close))
  /\ ~DecLess(DecMin(e.open, e.close), e.low)

\* a positional or keyed candle whose fields coerce and satisfy the high/low rule
ValidCandle(raw) == Coerced(raw).ok /\ HighLowHolds(Coerced(raw).val)

C2_ShapeEquivalence ==
  (Done("validate_entry") /\ arg.shape = "list" /\ Len(arg.items) = 6
     /\ ValidCandle(arg)) =>
    /\ res.ok
    /\ OHCLEntryValidate(KeyedOf(arg.items)).ok
    /\ res.val = OHCLEntryValidate(KeyedOf(arg.items)).val

\* C3: a valid positional candle of exactly five values validates, its positions
\* 0..4 being timestamp, open, high, low, close and its volume the decimal zero.
C3_VolumeDefault ==
  (Done("validate_entry") /\ arg.shape = "list" /\ Len(arg.items) = 5
     /\ ValidCandle(arg)) =>
    /\ res.ok
    /\ res.val.timestamp = IntField(arg.items[1]).val
    /\ res.val.open = DecimalField(arg.items[2]).val
    /\ res.val.high = DecimalField(arg.items[3]).val
    /\ res.val.low = DecimalField(arg.items[4]).val
    /\ res.val.close = DecimalField(arg.items[5]).val
    /\ res.val.volume = Dec(0, 0, 0)

TradeFieldOk(raw, f) ==
  CASE f = "market" -> StrField(raw.market).ok
    [] f = "type" -> TypeField(raw.type).ok
    [] f = "timestamp" -> TimestampField(raw.timestamp).ok
    [] OTHER -> DecimalField(raw[f]).ok

TradeFields == {"market", "price", "amount", "total", "type", "timestamp"}

OthersValid(raw, f) == \A g \in TradeFields \ {f} : TradeFieldOk(raw, g)

\* C4: a trade whose other fields are valid is accepted iff its type is exactly
\* the string "buy" or "sell", and the accepted entry's type is the input's.
C4_TypeLiteral ==
  (Done("validate_trade") /\ OthersValid(arg, "type")) =>
    /\ res.ok <=> (arg.type.k = "str" /\ arg.type.s \in {Buy, Sell})
    /\ res.ok => res.val.type = arg.type.s

\* a trade of type "BUY", valid otherwise, has been rejected
C4_Witness ==
  /\ Done("validate_trade")
  /\ OthersValid(arg, "type")
  /\ arg.type = S(<<"B", "U", "Y">>)
  /\ ~res.ok

\* C5: the symbol map validates iff every symbol's collection validates, and
\* then maps exactly the input's keys, each to its validated series.
C5_MapValidatesEachSymbol ==
  Done("validate_map") =>
    /\ res.ok <=> (\A sym \in DOMAIN arg : OHCLValidate(arg[sym]).ok)
    /\ res.ok =>
         /\ DOMAIN res.val = DOMAIN arg
         /\ \A sym \in DOMAIN arg : res.val[sym] = OHCLValidate(arg[sym]).val

\* C6: a collection validates iff each of its elements is accepted by the entry
\* normalizer; the empty sequence yields a series of no entries, and a failure
\* yields no series.
C6_SeriesIffEveryEntry ==
  (Done("validate_series") /\ arg.has) =>
    /\ res.ok <=> (\A i \in 1..Len(arg.values) : OHCLEntryValidate(arg.values[i]).ok)
    /\ res.ok => Len(res.val.values) = Len(arg.values)
    /\ arg.values = <<>> => (res.ok /\ res.val.values = <<>>)
    /\ ~res.ok => res.val = NoValue

\* a collection of two candles with a rejected one has failed
C6_Witness ==
  /\ Done("validate_series")
  /\ arg.has /\ Len(arg.values) = 2
  /\ ~OHCLEntryValidate(arg.values[2]).ok
  /\ ~res.ok /\ res.val = NoValue

\* the parts of a literal: its sign, and the texts before and after the point
LitSigned(s) == Len(s) > 0 /\ s[1] \in {"+", "-"}

LitBody(s) == IF LitSigned(s) THEN SubSeq(s, 2, Len(s)) ELSE s

LitInt(s) ==
  IF DotPos(LitBody(s)) = 0 THEN LitBody(s)
  ELSE SubSeq(LitBody(s), 1, DotPos(LitBody(s)) - 1)

LitFrac(s) ==
  IF DotPos(LitBody(s)) = 0 THEN <<>>
  ELSE SubSeq(LitBody(s), DotPos(LitBody(s)) + 1, Len(LitBody(s)))

\* the literal's value in units of 10^-Len(LitFrac(s))
LitUnits(s) ==
  (IF LitSigned(s) /\ s[1] = "-" THEN -1 ELSE 1)
    * (DigitsToInt(LitInt(s)) * Pow10(Len(LitFrac(s))) + DigitsToInt(LitFrac(s)))

\* the stored decimal has the literal's value
SameValue(d, s) == Scaled(d, 0 - Len(LitFrac(s))) = LitUnits(s)

\* 0.000000d...: Python prints it with an exponent
Tiny(s) ==
  /\ LitInt(s) = <<"0">>
  /\ Len(LitFrac(s)) >= 7
  /\ \A i \in 1..6 : LitFrac(s)[i] = "0"

\* plain canonical form: [-] integer part without a redundant zero [. digits]
Canonical(s) ==
  /\ ~(Len(s) > 0 /\ s[1] = "+")
  /\ Len(LitInt(s)) > 0 /\ AllDigits(LitInt(s))
  /\ Len(LitInt(s)) = 1 \/ LitInt(s)[1] # "0"
  /\ DotPos(LitBody(s)) > 0 => Len(LitFrac(s)) > 0
  /\ AllDigits(LitFrac(s))
  /\ ~Tiny(s)

\* a leading +, a redundant leading zero, or no digit on one side of the point
Uncanonical(s) ==
  \/ Len(s) > 0 /\ s[1] = "+"
  \/ Len(LitInt(s)) > 1 /\ LitInt(s)[1] = "0"
  \/ DotPos(LitBody(s)) > 0 /\ (LitInt(s) = <<>> \/ LitFrac(s) = <<>>)

\* the decimal fields of an accepted entry that were given as strings
StringDecimals ==
  IF op = "validate_trade"
  THEN {f \in {"price", "amount", "total"} : arg[f].k = "str"}
  ELSE {f \in {"open", "high", "low", "close", "volume"} :
          parse_list(arg).shape = "dict" /\ parse_list(arg).fields[f].k = "str"}

GivenText(f) == IF op = "validate_trade" THEN arg[f].s ELSE parse_list(arg).fields[f].s

Accepted == pc = "done" /\ op \in {"validate_trade", "validate_entry"} /\ res.ok

C8_NoSignOrOrderConstraint ==
  (Done("validate_entry") /\ ValidCandle(arg)) =>
    /\ res.ok
    /\ res.val = Coerced(arg).val

\* the text the claim has stored for a timestamp
ExpectedTimestamp(v) ==
  CASE v.k = "str" -> v.s
    [] v.k = "datetime" -> IsoFormat(v.n)
    [] OTHER -> PyStr(v)

\* C9: a trade with a timestamp is accepted iff its other fields are valid,
\* whatever the timestamp; a date-time is stored as its ISO-8601 text, anything
\* else as its string conversion, a string verbatim.
C9_TimestampLenient ==
  (Done("validate_trade") /\ arg.timestamp.k # "absent") =>
    /\ res.ok <=> OthersValid(arg, "timestamp")
    /\ res.ok => res.val.timestamp = ExpectedTimestamp(arg.timestamp)

\* a trade with a date-time timestamp has been stored with its ISO-8601 text
C9_Witness ==
  /\ Done("validate_trade") /\ res.ok
  /\ arg.timestamp = DT(1)
  /\ res.val.timestamp = IsoFormat(1)
  /\ res.val.timestamp[11] = "T"

FirstSix(raw) == List(SubSeq(raw.items, 1, 6))

C11_CheckAfterCoercion ==
  Done("validate_entry") =>
    /\ Coerced(arg).ok => (res.ok <=> HighLowHolds(Coerced(arg).val))
    /\ ~Coerced(arg).ok =>
         (~res.ok /\ res.err = Coerced(arg).err
            /\ res.err \in {"missing", "model_type", "int_parsing", "int_type",
                            "decimal_parsing", "decimal_type"})
====
